---- MODULE Spec2Model ----
(***************************************************************************)
(* Redis Sentinel client (package sentinel): the Client with its rotating  *)
(* list of sentinel addresses, its lazily dialled connection and its       *)
(* mutex; the pool built by NewPool with its Dial and TestOnBorrow         *)
(* callbacks; TestRole and validateConfig.                                 *)
(*                                                                         *)
(* src/sentinel.go holds two copies of the package.  They differ in NewPool *)
(* (the first copy validates nothing) and in Client.do (the first copy has  *)
(* no break after a successful attempt).  The variable copy says which copy *)
(* runs; it never changes.                                                 *)
(***************************************************************************)
EXTENDS Integers, Sequences, FiniteSets, TLC

\* Bounds of the model.
NumCallers == 2
MaxAddrs == 3
MaxPoolSentinels == 1
MaxPoolCalls == 1
MaxDataConns == 1

\* the goroutines that use a Client; those among them that run the callbacks
\* of a pool
Callers == 1..NumCallers
PoolCallers == 1..MaxPoolCalls

VARIABLES
    copy,        \* 1 or 2: the copy of the package that runs
    built,       \* "no", "client" (NewClient), "pool" (NewPool), "rejected" (NewPool failed)
    conf,        \* the Config handed to NewPool
    addrs,       \* Client.addrs; the k-th configured sentinel is the address k
    activeAddr,  \* Client.activeAddr, an index from 0
    conn,        \* Client.conn: 0 is nil, else the address the connection was dialled to
    mutex,       \* Client's sync.Mutex: 0 is unlocked, else the caller holding it
    nopen,       \* the number of sentinel connections dialled and not closed
    closed,      \* Close has run and no attempt of a call has finished since (history)
    dconns,      \* every data-node connection dialled so far: [addr, returned, closed]
    pc,          \* where each caller is
    op,          \* the operation each caller runs
    i,           \* do: the loop counter
    reply,       \* do: reply
    err,         \* do: err
    log,         \* the attempts of the caller's current do: [addr, dialed, res]
    res,         \* what MasterAddress returns: [addr, parts, err]
    c,           \* Dial, TestOnBorrow: the data-node connection c
    rr,          \* the ROLE reply TestRole received
    trace,       \* the stages the caller's Dial went through
    ret,         \* what Dial or TestOnBorrow returns: [conn, err]
    entry        \* activeAddr and conn as they were when the caller took the lock

shared == <<copy, built, conf, addrs, activeAddr, conn, mutex, nopen, dconns, closed>>
locals == <<pc, op, i, reply, err, log, res, c, rr, trace, ret, entry>>
vars == <<copy, built, conf, addrs, activeAddr, conn, mutex, nopen, dconns, closed,
          pc, op, i, reply, err, log, res, c, rr, trace, ret, entry>>

----------------------------------------------------------------------------
\* Values

\* error values: msg "" is nil; at is the sentinel address the attempt was against
NoErr == [msg |-> "", at |-> 0]
DialErr(a) == [msg |-> "dial tcp: connection refused", at |-> a]
IOErr(a) == [msg |-> "read tcp: i/o timeout", at |-> a]
ErrNil == [msg |-> "redigo: nil returned", at |-> 0]
ErrElem == [msg |-> "redigo: unexpected element type for Strings", at |-> 0]
ErrType == [msg |-> "redigo: unexpected type for Strings", at |-> 0]

Bulk(s) == [t |-> "bulk", v |-> s]
IntElem == [t |-> "int", v |-> "1"]

\* replies of conn.Do: kind "nil" is Go's nil; from is the sentinel that answered
NilReply == [kind |-> "nil", elems |-> <<>>, from |-> 0]
Array(es, a) == [kind |-> "array", elems |-> es, from |-> a]

MasterHost == "10.0.0.9"
MasterPort == "6379"

\* what a sentinel may answer to SENTINEL get-master-addr-by-name
SentinelReplies(a) ==
    { Array(<<Bulk(MasterHost), Bulk(MasterPort)>>, a),
      Array(<<Bulk(MasterHost)>>, a),
      Array(<<Bulk(MasterHost), Bulk(MasterPort), Bulk("extra")>>, a),
      Array(<<Bulk(MasterHost), IntElem>>, a),
      [kind |-> "nil", elems |-> <<>>, from |-> a] }

\* what conn.Do("ROLE") may give: a reply, or an error (kind "error")
RoleReplies ==
    { [kind |-> "error", elems |-> <<>>],
      [kind |-> "int", elems |-> <<>>],
      [kind |-> "array", elems |-> <<>>],
      [kind |-> "array", elems |-> <<Bulk("master"), IntElem>>],
      [kind |-> "array", elems |-> <<Bulk("slave"), Bulk(MasterHost)>>],
      [kind |-> "array", elems |-> <<Bulk("MASTER"), IntElem>>],
      [kind |-> "array", elems |-> <<IntElem, Bulk("master")>>] }

NoRole == [kind |-> "none", elems |-> <<>>]

\* strings.Join(res, ":")
RECURSIVE Join(_)
Join(ss) ==
    IF Len(ss) = 0 THEN ""
    ELSE IF Len(ss) = 1 THEN ss[1]
    ELSE ss[1] \o ":" \o Join(Tail(ss))

\* a Strings that takes a nil reply for an empty list
StringsNilEmpty(r, e) ==
    IF e # NoErr THEN [v |-> <<>>, err |-> e]
    ELSE IF r.kind = "array"
         THEN IF \A k \in 1..Len(r.elems) : r.elems[k].t = "bulk"
              THEN [v |-> [k \in 1..Len(r.elems) |-> r.elems[k].v], err |-> NoErr]
              ELSE [v |-> <<>>, err |-> ErrElem]
    ELSE IF r.kind = "nil" THEN [v |-> <<>>, err |-> NoErr]
    ELSE [v |-> <<>>, err |-> ErrType]

\* redis.Strings(reply, err)
Strings(r, e) ==
    IF e # NoErr THEN [v |-> <<>>, err |-> e]
    ELSE IF r.kind = "array"
         THEN IF \A k \in 1..Len(r.elems) : r.elems[k].t = "bulk"
              THEN [v |-> [k \in 1..Len(r.elems) |-> r.elems[k].v], err |-> NoErr]
              ELSE [v |-> <<>>, err |-> ErrElem]
    ELSE IF r.kind = "nil" THEN [v |-> <<>>, err |-> ErrNil]
    ELSE [v |-> <<>>, err |-> ErrType]

\* TestRole(c, expectedRole) on the ROLE reply r: [err, panic]; err "" is nil
TestRole(r, expectedRole) ==
    IF r.kind = "error" THEN [err |-> "read tcp: i/o timeout", panic |-> FALSE]
    ELSE IF r.kind = "nil" THEN [err |-> "redigo: nil returned", panic |-> FALSE]
    ELSE IF r.kind # "array"
         THEN [err |-> "redigo: unexpected type for Values", panic |-> FALSE]
    ELSE IF Len(r.elems) = 0
         THEN [err |-> "", panic |-> TRUE]   \* res[0]: index out of range
    ELSE IF r.elems[1].t # "bulk"
         THEN [err |-> "redigo: unexpected type for String", panic |-> FALSE]
    ELSE IF r.elems[1].v # expectedRole
         THEN [err |-> "role check failed", panic |-> FALSE]
    ELSE [err |-> "", panic |-> FALSE]

----------------------------------------------------------------------------
\* Configuration

Fields == {"Connect", "Read", "Write"}
Set == [Connect |-> 1, Read |-> 1, Write |-> 1]
ZeroTimeouts == [Connect |-> 0, Read |-> 0, Write |-> 0]
ZeroConf == [Master |-> "", Sentinels |-> <<>>,
             SentinelTimeouts |-> ZeroTimeouts, RedisTimeouts |-> ZeroTimeouts]

SentinelLists == { [k \in 1..n |-> k] : n \in 0..MaxAddrs }

\* a configuration with every value set, for n sentinels
FullConf(n) == [Master |-> "mymaster", Sentinels |-> [k \in 1..n |-> k],
                SentinelTimeouts |-> Set, RedisTimeouts |-> Set]

Negative == [Connect |-> -1, Read |-> -1, Write |-> -1]

\* the configurations NewPool is given: every value set; one value of the
\* one-sentinel configuration left unset; every timeout negative
Configs ==
    { FullConf(n) : n \in 1..MaxPoolSentinels }
    \cup { [FullConf(1) EXCEPT !.Master = ""], [FullConf(1) EXCEPT !.Sentinels = <<>>] }
    \cup { [FullConf(1) EXCEPT !.SentinelTimeouts[f] = 0] : f \in Fields }
    \cup { [FullConf(1) EXCEPT !.RedisTimeouts[f] = 0] : f \in Fields }
    \cup { [FullConf(1) EXCEPT !.SentinelTimeouts = Negative, !.RedisTimeouts = Negative] }

\* a validateConfig that checks two of the three sentinel timeouts
validateConfigNoRead(cf) ==
    IF cf.Master = "" THEN "master is not set"
    ELSE IF Len(cf.Sentinels) = 0 THEN "sentinel array is not set"
    ELSE IF \/ cf.SentinelTimeouts.Connect = 0
            \/ cf.SentinelTimeouts.Write = 0
         THEN "sentinel timeouts are not set"
    ELSE IF cf.RedisTimeouts.Connect = 0 THEN "redis timeouts are not set"
    ELSE ""

\* validateConfig(conf): the error, "" is nil
validateConfig(cf) ==
    IF cf.Master = "" THEN "master is not set"
    ELSE IF Len(cf.Sentinels) = 0 THEN "sentinel array is not set"
    ELSE IF \/ cf.SentinelTimeouts.Connect = 0
            \/ cf.SentinelTimeouts.Read = 0
            \/ cf.SentinelTimeouts.Write = 0
         THEN "sentinel timeouts are not set"
    ELSE IF cf.RedisTimeouts.Connect = 0 THEN "redis timeouts are not set"
    ELSE ""

----------------------------------------------------------------------------
\* Initial state: nothing constructed, every caller idle

NoRes == [addr |-> "", parts |-> 0, err |-> NoErr]
NoRet == [conn |-> 0, err |-> ""]
NoEntry == [activeAddr |-> 0, conn |-> 0]

InitRest ==
    /\ built = "no"
    /\ conf = ZeroConf
    /\ addrs = <<>>
    /\ activeAddr = 0
    /\ conn = 0
    /\ mutex = 0
    /\ nopen = 0
    /\ dconns = <<>>
    /\ closed = FALSE
    /\ pc = [p \in Callers |-> "idle"]
    /\ op = [p \in Callers |-> ""]
    /\ i = [p \in Callers |-> 0]
    /\ reply = [p \in Callers |-> NilReply]
    /\ err = [p \in Callers |-> NoErr]
    /\ log = [p \in Callers |-> <<>>]
    /\ res = [p \in Callers |-> NoRes]
    /\ c = [p \in Callers |-> 0]
    /\ rr = [p \in Callers |-> NoRole]
    /\ trace = [p \in Callers |-> <<>>]
    /\ ret = [p \in Callers |-> NoRet]
    /\ entry = [p \in Callers |-> NoEntry]

Init == copy = 2 /\ InitRest

InitCopies == copy \in {1, 2} /\ InitRest

\* a panic no one recovers ends the program
Running == \A p \in Callers : pc[p] # "panic"

----------------------------------------------------------------------------
\* Construction

\* NewClient(addrs, options...)
NewClient(as) ==
    /\ built = "no"
    /\ built' = "client"
    /\ addrs' = as
    /\ UNCHANGED <<copy, closed, conf, activeAddr, conn, mutex, nopen, dconns>>
    /\ UNCHANGED locals

\* NewPool(conf): the second copy validates conf first, the first copy does not
\* (its timeouts are slices, here always of three elements)
NewPool(cf) ==
    /\ built = "no"
    /\ conf' = cf
    /\ IF copy = 2 /\ validateConfig(cf) # ""
       THEN built' = "rejected" /\ addrs' = addrs
       ELSE built' = "pool" /\ addrs' = cf.Sentinels
    /\ UNCHANGED <<copy, closed, activeAddr, conn, mutex, nopen, dconns>>
    /\ UNCHANGED locals

----------------------------------------------------------------------------
\* Client.MasterAddress and Client.Close

\* the caller's locals as they are outside any call
Cleared(p) ==
    /\ i' = [i EXCEPT ![p] = 0]
    /\ reply' = [reply EXCEPT ![p] = NilReply]
    /\ err' = [err EXCEPT ![p] = NoErr]
    /\ log' = [log EXCEPT ![p] = <<>>]

\* a caller invokes sc.MasterAddress(name)
CallMasterAddress(p) ==
    /\ Running
    /\ built = "client"
    /\ pc[p] = "idle"
    /\ pc' = [pc EXCEPT ![p] = "lock"]
    /\ op' = [op EXCEPT ![p] = "MasterAddress"]
    /\ UNCHANGED shared
    /\ UNCHANGED <<i, reply, err, log, res, c, rr, trace, ret, entry>>

\* a caller invokes sc.Close()
CallClose(p) ==
    /\ Running
    /\ built = "client"
    /\ pc[p] = "idle"
    /\ pc' = [pc EXCEPT ![p] = "lock"]
    /\ op' = [op EXCEPT ![p] = "Close"]
    /\ UNCHANGED shared
    /\ UNCHANGED <<i, reply, err, log, res, c, rr, trace, ret, entry>>

\* the pool invokes its Dial callback, which starts with sentConn.MasterAddress
CallDial(p) ==
    /\ Running
    /\ built = "pool"
    /\ p \in PoolCallers
    /\ pc[p] = "idle"
    /\ pc' = [pc EXCEPT ![p] = "lock"]
    /\ op' = [op EXCEPT ![p] = "Dial"]
    /\ UNCHANGED shared
    /\ UNCHANGED <<i, reply, err, log, res, c, rr, trace, ret, entry>>

\* a Lock that does not wait for the holder
NeverWaits == TRUE

\* sync.Mutex: Lock returns only while no one holds the mutex
MayLock == mutex = 0

\* sc.Lock()
Lock(p) ==
    /\ Running
    /\ pc[p] = "lock"
    /\ MayLock
    /\ mutex' = p
    /\ pc' = [pc EXCEPT ![p] = IF op[p] = "Close" THEN "close" ELSE "do"]
    /\ entry' = [entry EXCEPT ![p] = [activeAddr |-> activeAddr, conn |-> conn]]
    /\ UNCHANGED <<copy, closed, built, conf, addrs, activeAddr, conn, nopen, dconns>>
    /\ UNCHANGED <<op, i, reply, err, log, res, c, rr, trace, ret>>

\* a doOnce that always dials the first sentinel of the list
TargetFirst == IF conn # 0 THEN conn ELSE addrs[1]

\* the address the next query goes to: the live connection's, else addrs[activeAddr]
Target == IF conn # 0 THEN conn ELSE addrs[activeAddr + 1]

\* do, loop head with i < len(sc.addrs): doOnce dials if sc.conn is nil and
\* sends the command (a failed dial ends the attempt, and the span that closed
\* marks)
DoOnce(p) ==
    /\ Running
    /\ pc[p] = "do"
    /\ i[p] < Len(addrs)
    /\ IF conn = 0
       THEN \E ok \in BOOLEAN :
              IF ok
              THEN /\ conn' = Target
                   /\ nopen' = nopen + 1
                   /\ log' = [log EXCEPT ![p] = Append(@,
                                [addr |-> Target, dialed |-> TRUE, res |-> "inflight"])]
                   /\ pc' = [pc EXCEPT ![p] = "query"]
                   /\ UNCHANGED <<reply, err, closed>>
              ELSE /\ reply' = [reply EXCEPT ![p] = NilReply]
                   /\ err' = [err EXCEPT ![p] = DialErr(Target)]
                   /\ log' = [log EXCEPT ![p] = Append(@,
                                [addr |-> Target, dialed |-> TRUE, res |-> "dialerr"])]
                   /\ pc' = [pc EXCEPT ![p] = "after"]
                   /\ closed' = FALSE
                   /\ UNCHANGED <<nopen, conn>>
       ELSE /\ log' = [log EXCEPT ![p] = Append(@,
                         [addr |-> Target, dialed |-> FALSE, res |-> "inflight"])]
            /\ pc' = [pc EXCEPT ![p] = "query"]
            /\ UNCHANGED <<nopen, conn, reply, err, closed>>
    /\ UNCHANGED <<copy, built, conf, addrs, activeAddr, mutex, dconns>>
    /\ UNCHANGED <<op, i, res, c, rr, trace, ret, entry>>

SetLast(l, r) == [l EXCEPT ![Len(l)] = [@ EXCEPT !.res = r]]

\* doOnce: sc.conn.Do returns a reply, or an error (a failed write or read, or
\* an error reply of the sentinel); on an error the connection is closed and
\* dropped (either way the attempt ends, and the span that closed marks)
ConnDo(p) ==
    /\ Running
    /\ pc[p] = "query"
    /\ IF conn = 0
       THEN /\ pc' = [pc EXCEPT ![p] = "panic"]    \* sc.conn.Do on a nil sc.conn
            /\ UNCHANGED <<nopen, conn, reply, err, log>>
       ELSE \/ \E r \in SentinelReplies(Target) :
                 /\ reply' = [reply EXCEPT ![p] = r]
                 /\ err' = [err EXCEPT ![p] = NoErr]
                 /\ log' = [log EXCEPT ![p] = SetLast(@, "ok")]
                 /\ pc' = [pc EXCEPT ![p] = "after"]
                 /\ UNCHANGED <<nopen, conn>>
            \/ /\ reply' = [reply EXCEPT ![p] = NilReply]
               /\ err' = [err EXCEPT ![p] = IOErr(Target)]
               /\ nopen' = nopen - 1
               /\ conn' = 0
               /\ log' = [log EXCEPT ![p] = SetLast(@, "ioerr")]
               /\ pc' = [pc EXCEPT ![p] = "after"]
    /\ closed' = FALSE
    /\ UNCHANGED <<copy, built, conf, addrs, activeAddr, mutex, dconns>>
    /\ UNCHANGED <<op, i, res, c, rr, trace, ret, entry>>

\* a do that never leaves its loop early
NoBreak == FALSE

\* do: whether the loop is left after an attempt without error (the first copy
\* has no break)
Breaks == copy = 2

\* a rotation that stays on the same sentinel
RotateStuck(a) == a

\* a rotation that stops at the last sentinel instead of wrapping around
RotateClamp(a) == IF a + 1 < Len(addrs) THEN a + 1 ELSE a

\* do: sc.activeAddr = (sc.activeAddr + 1) % len(sc.addrs)
Rotate(a) == (a + 1) % Len(addrs)

\* do, after doOnce: on an error rotate and continue, else break
LoopNext(p) ==
    /\ Running
    /\ pc[p] = "after"
    /\ IF err[p] # NoErr
       THEN /\ activeAddr' = Rotate(activeAddr)
            /\ i' = [i EXCEPT ![p] = @ + 1]
            /\ pc' = [pc EXCEPT ![p] = "do"]
       ELSE IF Breaks
            THEN /\ pc' = [pc EXCEPT ![p] = "strings"]
                 /\ UNCHANGED <<activeAddr, i>>
            ELSE /\ i' = [i EXCEPT ![p] = @ + 1]
                 /\ pc' = [pc EXCEPT ![p] = "do"]
                 /\ UNCHANGED activeAddr
    /\ UNCHANGED <<copy, closed, built, conf, addrs, conn, mutex, nopen, dconns>>
    /\ UNCHANGED <<op, reply, err, log, res, c, rr, trace, ret, entry>>

\* do, loop head with i = len(sc.addrs): return reply, err
LoopEnd(p) ==
    /\ Running
    /\ pc[p] = "do"
    /\ i[p] >= Len(addrs)
    /\ pc' = [pc EXCEPT ![p] = "strings"]
    /\ UNCHANGED shared
    /\ UNCHANGED <<op, i, reply, err, log, res, c, rr, trace, ret, entry>>

\* MasterAddress: redis.Strings on what do returned, then strings.Join
StringsJoin(p) ==
    /\ Running
    /\ pc[p] = "strings"
    /\ LET s == Strings(reply[p], err[p])
       IN res' = [res EXCEPT ![p] = [addr |-> Join(s.v), parts |-> Len(s.v), err |-> s.err]]
    /\ pc' = [pc EXCEPT ![p] = "unlock"]
    /\ UNCHANGED shared
    /\ UNCHANGED <<op, i, reply, err, log, c, rr, trace, ret, entry>>

\* a Close that closes the connection and keeps the stale sc.conn
CloseKeepsConn(p) ==
    /\ Running
    /\ pc[p] = "close"
    /\ IF conn # 0
       THEN nopen' = nopen - 1
       ELSE UNCHANGED nopen
    /\ closed' = TRUE
    /\ pc' = [pc EXCEPT ![p] = "unlock"]
    /\ UNCHANGED <<copy, built, conf, addrs, activeAddr, conn, mutex, dconns>>
    /\ UNCHANGED <<op, i, reply, err, log, res, c, rr, trace, ret, entry>>

\* a Close that also starts the rotation over at the first sentinel
CloseResetsAddr(p) ==
    /\ Running
    /\ pc[p] = "close"
    /\ IF conn # 0
       THEN /\ nopen' = nopen - 1
            /\ conn' = 0
       ELSE UNCHANGED <<nopen, conn>>
    /\ activeAddr' = 0
    /\ closed' = TRUE
    /\ pc' = [pc EXCEPT ![p] = "unlock"]
    /\ UNCHANGED <<copy, built, conf, addrs, mutex, dconns>>
    /\ UNCHANGED <<op, i, reply, err, log, res, c, rr, trace, ret, entry>>

\* Close: close and drop the connection if there is one (closed records that
\* Close has run)
CloseConn(p) ==
    /\ Running
    /\ pc[p] = "close"
    /\ IF conn # 0
       THEN /\ nopen' = nopen - 1
            /\ conn' = 0
       ELSE UNCHANGED <<nopen, conn>>
    /\ closed' = TRUE
    /\ pc' = [pc EXCEPT ![p] = "unlock"]
    /\ UNCHANGED <<copy, built, conf, addrs, activeAddr, mutex, dconns>>
    /\ UNCHANGED <<op, i, reply, err, log, res, c, rr, trace, ret, entry>>

\* an Unlock written before each return instead of deferred, and forgotten on
\* the return of an error
UnlockOnSuccess(p) ==
    /\ Running
    /\ pc[p] = "unlock"
    /\ mutex' = IF res[p].err # NoErr THEN mutex ELSE 0
    /\ Cleared(p)
    /\ IF op[p] = "Dial"
       THEN /\ pc' = [pc EXCEPT ![p] = "dial"]
            /\ UNCHANGED <<op, res>>
       ELSE /\ pc' = [pc EXCEPT ![p] = "idle"]
            /\ op' = [op EXCEPT ![p] = ""]
            /\ res' = [res EXCEPT ![p] = NoRes]
    /\ entry' = [entry EXCEPT ![p] = NoEntry]
    /\ UNCHANGED <<copy, closed, built, conf, addrs, activeAddr, conn, nopen, dconns>>
    /\ UNCHANGED <<c, rr, trace, ret>>

\* the deferred sc.Unlock(): MasterAddress or Close returns
Unlock(p) ==
    /\ Running
    /\ pc[p] = "unlock"
    /\ mutex' = 0
    /\ Cleared(p)
    /\ IF op[p] = "Dial"
       THEN /\ pc' = [pc EXCEPT ![p] = "dial"]
            /\ UNCHANGED <<op, res>>
       ELSE /\ pc' = [pc EXCEPT ![p] = "idle"]
            /\ op' = [op EXCEPT ![p] = ""]
            /\ res' = [res EXCEPT ![p] = NoRes]
    /\ entry' = [entry EXCEPT ![p] = NoEntry]
    /\ UNCHANGED <<copy, closed, built, conf, addrs, activeAddr, conn, nopen, dconns>>
    /\ UNCHANGED <<c, rr, trace, ret>>

----------------------------------------------------------------------------
\* The pool's callbacks

\* Dial: if err != nil after MasterAddress
ResolveFailed(r) == r.err # NoErr

\* a Dial that ignores the result of the role check
RoleFailedNever(t) == FALSE

\* Dial: if err := TestRole(c, "master"); err != nil
RoleFailed(t) == t.err # ""

\* Dial, after MasterAddress returned: give up on its error, else redis.Dial the
\* data node at masterAddr (an address that is not host:port cannot be dialled)
DialData(p) ==
    /\ Running
    /\ pc[p] = "dial"
    /\ LET resolved == IF res[p].err = NoErr THEN "resolve:ok" ELSE "resolve:err"
       IN IF ResolveFailed(res[p])
          THEN /\ ret' = [ret EXCEPT ![p] =
                           [conn |-> 0, err |-> "sentinel: get master address"]]
               /\ trace' = [trace EXCEPT ![p] = <<resolved>>]
               /\ pc' = [pc EXCEPT ![p] = "ret"]
               /\ UNCHANGED <<dconns, c>>
          ELSE \E ok \in BOOLEAN :
                 IF ok /\ res[p].parts = 2 /\ Len(dconns) < MaxDataConns
                 THEN /\ dconns' = Append(dconns, [addr |-> res[p].addr, returned |-> FALSE,
                                               closed |-> FALSE])
                      /\ c' = [c EXCEPT ![p] = Len(dconns) + 1]
                      /\ trace' = [trace EXCEPT ![p] = <<resolved, "dial:ok">>]
                      /\ pc' = [pc EXCEPT ![p] = "role"]
                      /\ UNCHANGED ret
                 ELSE /\ ret' = [ret EXCEPT ![p] = [conn |-> 0, err |-> "dial error"]]
                      /\ trace' = [trace EXCEPT ![p] = <<resolved, "dial:err">>]
                      /\ pc' = [pc EXCEPT ![p] = "ret"]
                      /\ UNCHANGED <<dconns, c>>
    /\ res' = [res EXCEPT ![p] = NoRes]
    /\ UNCHANGED <<copy, closed, built, conf, addrs, activeAddr, conn, mutex, nopen>>
    /\ UNCHANGED <<op, i, reply, err, log, rr, entry>>

\* Dial: TestRole(c, "master") on the new connection, then return; on a failed
\* check return nil and the error, and c stays as it is: nothing closes it
DialRole(p) ==
    /\ Running
    /\ pc[p] = "role"
    /\ \E r \in RoleReplies :
         LET t == TestRole(r, "master")
             checked == IF t.err = "" THEN "role:ok" ELSE "role:err"
         IN /\ rr' = [rr EXCEPT ![p] = r]
            /\ IF t.panic
               THEN /\ pc' = [pc EXCEPT ![p] = "panic"]
                    /\ UNCHANGED <<ret, trace, dconns>>
               ELSE /\ trace' = [trace EXCEPT ![p] = Append(@, checked)]
                    /\ pc' = [pc EXCEPT ![p] = "ret"]
                    /\ IF RoleFailed(t)
                       THEN /\ ret' = [ret EXCEPT ![p] =
                                        [conn |-> 0, err |-> "dial: failed role check"]]
                            /\ UNCHANGED dconns
                       ELSE /\ ret' = [ret EXCEPT ![p] = [conn |-> c[p], err |-> ""]]
                            /\ dconns' = [dconns EXCEPT ![c[p]].returned = TRUE]
    /\ UNCHANGED <<copy, closed, built, conf, addrs, activeAddr, conn, mutex, nopen>>
    /\ UNCHANGED <<op, i, reply, err, log, res, c, entry>>

\* the pool invokes TestOnBorrow(c, t) on a connection Dial gave it: one ROLE
\* query on c, which touches nothing of the Client
TestOnBorrow(p, d) ==
    /\ Running
    /\ built = "pool"
    /\ p \in PoolCallers
    /\ pc[p] = "idle"
    /\ d \in 1..Len(dconns)
    /\ dconns[d].returned
    /\ op' = [op EXCEPT ![p] = "TestOnBorrow"]
    /\ c' = [c EXCEPT ![p] = d]
    /\ \E r \in RoleReplies :
         LET t == TestRole(r, "master")
         IN /\ rr' = [rr EXCEPT ![p] = r]
            /\ IF t.panic
               THEN /\ pc' = [pc EXCEPT ![p] = "panic"]
                    /\ UNCHANGED ret
               ELSE /\ pc' = [pc EXCEPT ![p] = "ret"]
                    /\ ret' = [ret EXCEPT ![p] =
                                [conn |-> d,
                                 err |-> IF t.err # "" THEN "failed role check" ELSE ""]]
    /\ UNCHANGED shared
    /\ UNCHANGED <<i, reply, err, log, res, trace, entry>>

\* Dial or TestOnBorrow returns to the pool
Return(p) ==
    /\ Running
    /\ pc[p] = "ret"
    /\ pc' = [pc EXCEPT ![p] = "idle"]
    /\ op' = [op EXCEPT ![p] = ""]
    /\ res' = [res EXCEPT ![p] = NoRes]
    /\ c' = [c EXCEPT ![p] = 0]
    /\ rr' = [rr EXCEPT ![p] = NoRole]
    /\ trace' = [trace EXCEPT ![p] = <<>>]
    /\ ret' = [ret EXCEPT ![p] = NoRet]
    /\ UNCHANGED shared
    /\ UNCHANGED <<i, reply, err, log, entry>>

----------------------------------------------------------------------------
\* Specifications

Next ==
    \/ \E as \in SentinelLists : NewClient(as)
    \/ \E cf \in Configs : NewPool(cf)
    \/ \E p \in Callers : CallMasterAddress(p)
    \/ \E p \in Callers : CallClose(p)
    \/ \E p \in Callers : CallDial(p)
    \/ \E p \in Callers : Lock(p)
    \/ \E p \in Callers : DoOnce(p)
    \/ \E p \in Callers : ConnDo(p)
    \/ \E p \in Callers : LoopNext(p)
    \/ \E p \in Callers : LoopEnd(p)
    \/ \E p \in Callers : StringsJoin(p)
    \/ \E p \in Callers : CloseConn(p)
    \/ \E p \in Callers : Unlock(p)
    \/ \E p \in Callers : DialData(p)
    \/ \E p \in Callers : DialRole(p)
    \/ \E p \in Callers : \E d \in 1..MaxDataConns : TestOnBorrow(p, d)
    \/ \E p \in Callers : Return(p)

\* the second copy of the package
Spec == Init /\ [][Next]_vars

\* either copy of the package
SpecCopies == InitCopies /\ [][Next]_vars

\* a step of caller p between Lock and the return of MasterAddress or Close
InCall(p) ==
    \/ DoOnce(p)
    \/ ConnDo(p)
    \/ LoopNext(p)
    \/ LoopEnd(p)
    \/ StringsJoin(p)
    \/ CloseConn(p)
    \/ Unlock(p)

\* a Client built by NewClient and shared by the callers of MasterAddress and
\* Close (a pool keeps its Client to itself and never calls Close)
NextClient ==
    \/ \E as \in SentinelLists : NewClient(as)
    \/ \E p \in Callers : CallMasterAddress(p)
    \/ \E p \in Callers : CallClose(p)
    \/ \E p \in Callers : Lock(p)
    \/ \E p \in Callers : DoOnce(p)
    \/ \E p \in Callers : ConnDo(p)
    \/ \E p \in Callers : LoopNext(p)
    \/ \E p \in Callers : LoopEnd(p)
    \/ \E p \in Callers : StringsJoin(p)
    \/ \E p \in Callers : CloseConn(p)
    \/ \E p \in Callers : Unlock(p)

\* the Client of the second copy, where every dial and every query returns and
\* the holder of the mutex keeps running (weak fairness of the steps inside
\* the call), and a caller that waits in Lock gets the mutex if it is free
\* again and again (strong fairness: sync.Mutex hands the mutex to a waiter
\* that starves)
FairSpec ==
    /\ Init
    /\ [][NextClient]_vars
    /\ WF_vars(\E p \in Callers : InCall(p))
    /\ \A p \in Callers : SF_vars(Lock(p))

----------------------------------------------------------------------------
\* Properties

\* MasterAddress is about to return: do and redis.Strings are done, the lock is
\* still held
AtReturn(p) == pc[p] = "unlock" /\ op[p] \in {"MasterAddress", "Dial"}

Failed(a) == a.res \in {"dialerr", "ioerr"}
AllFailed(l) == \A k \in 1..Len(l) : Failed(l[k])
ErrOf(a) == IF a.res = "dialerr" THEN DialErr(a.addr) ELSE IOErr(a.addr)
Transport(e) == e.msg \in {DialErr(0).msg, IOErr(0).msg}
InLock(p) == pc[p] \in {"do", "query", "after", "strings", "close", "unlock"}
RoleIs(r, role) == r.kind = "array" /\ Len(r.elems) >= 1 /\ r.elems[1] = Bulk(role)

\* C1: when the attempt against addrs[i] fails and the attempt against
\* addrs[(i+1) mod n] succeeds, MasterAddress returns the reply of sentinel
\* (i+1) mod n with no error from do, and on return activeAddr = (i+1) mod n and
\* the live connection is the one to that sentinel.
C1_FailoverToNext ==
    \A p \in Callers :
        ( /\ AtReturn(p)
          /\ Len(log[p]) >= 2
          /\ log[p][1].addr = addrs[entry[p].activeAddr + 1]
          /\ Failed(log[p][1])
          /\ log[p][2].addr = addrs[((entry[p].activeAddr + 1) % Len(addrs)) + 1]
          /\ log[p][2].res = "ok" )
        => /\ err[p] = NoErr
           /\ reply[p].from = log[p][2].addr
           /\ res[p].err = Strings(reply[p], NoErr).err
           /\ activeAddr = (entry[p].activeAddr + 1) % Len(addrs)
           /\ conn = addrs[activeAddr + 1]

\* C2: when every attempt of a MasterAddress call on n >= 1 sentinels fails, the
\* call has made exactly n attempts, one against each configured address, and
\* returns the error of the last attempt.
C2_AllFailTriesEachOnce ==
    \A p \in Callers :
        (AtReturn(p) /\ Len(addrs) >= 1 /\ AllFailed(log[p]))
        => /\ Len(log[p]) = Len(addrs)
           /\ \A a \in 1..Len(addrs) :
                Cardinality({k \in 1..Len(log[p]) : log[p][k].addr = addrs[a]}) = 1
           /\ err[p] = ErrOf(log[p][Len(log[p])])
           /\ res[p].err = err[p]
           /\ res[p].addr = ""

C2_Witness ==
    \E p \in Callers :
        /\ AtReturn(p)
        /\ Len(addrs) = 3
        /\ AllFailed(log[p])
        /\ entry[p].conn # 0
        /\ log[p][1].res = "ioerr"
        /\ log[p][3].res = "dialerr"

\* C3: at most one caller is between Lock and Unlock of MasterAddress or Close,
\* and it is the holder of the mutex; at most one query is in flight; the
\* attempts of one call do not overlap those of another.
C3_Serialized ==
    /\ Cardinality({p \in Callers : InLock(p)}) <= 1
    /\ \A p \in Callers : InLock(p) => mutex = p
    /\ Cardinality({p \in Callers : pc[p] = "query"}) <= 1
    /\ Cardinality({p \in Callers : log[p] # <<>>}) <= 1

C3_Witness ==
    \E p, q \in Callers :
        /\ p # q
        /\ pc[p] = "query"
        /\ Len(log[p]) >= 2
        /\ pc[q] = "lock"
        /\ op[q] = "Close"

\* C4: when Dial returns, it returns a connection with a nil error exactly when
\* MasterAddress succeeded, then the data node was dialled, then the ROLE reply
\* named "master"; after a failed resolution nothing is dialled, after a failed
\* dial no role check runs, and after a failed role check Dial returns an error
\* and no connection, and the connection is not handed to the pool.
C4_DialOrder ==
    \A p \in Callers :
        (pc[p] = "ret" /\ op[p] = "Dial")
        => /\ (ret[p].conn # 0) <=> (ret[p].err = "")
           /\ (ret[p].conn # 0) <=> (trace[p] = <<"resolve:ok", "dial:ok", "role:ok">>)
           /\ ret[p].conn # 0 => (ret[p].conn = c[p] /\ RoleIs(rr[p], "master")
                                  /\ dconns[c[p]].returned)
           /\ trace[p][1] = "resolve:err" => (Len(trace[p]) = 1 /\ c[p] = 0)
           /\ (Len(trace[p]) >= 2 /\ trace[p][2] = "dial:err")
                => (Len(trace[p]) = 2 /\ c[p] = 0 /\ rr[p] = NoRole)
           /\ (Len(trace[p]) = 3 /\ trace[p][3] = "role:err")
                => (ret[p].conn = 0 /\ ~dconns[c[p]].returned)

C4_Witness ==
    \E p \in Callers :
        /\ pc[p] = "ret"
        /\ op[p] = "Dial"
        /\ trace[p] = <<"resolve:ok", "dial:ok", "role:err">>
        /\ RoleIs(rr[p], "slave")
        /\ ret[p].conn = 0

\* C5: TestRole succeeds exactly when the first element of the ROLE reply is the
\* string expected, and for every other reply, an empty array among them, it
\* returns a failure and does not crash.
C5_TestRoleIff ==
    \A p \in Callers :
        rr[p] # NoRole
        => /\ pc[p] # "panic"
           /\ (ret[p].err = "") <=> RoleIs(rr[p], "master")

\* C6: NewPool returns an error and no pool when the master name is empty, the
\* sentinel list is empty, a sentinel timeout is zero or the data-node connect
\* timeout is zero; no Client is constructed and nothing is dialled or queried.
Unset6(cf) ==
    \/ cf.Master = ""
    \/ Len(cf.Sentinels) = 0
    \/ \E f \in Fields : cf.SentinelTimeouts[f] = 0
    \/ cf.RedisTimeouts.Connect = 0

C6_RejectsBeforeNetwork ==
    (built \in {"pool", "rejected"} /\ Unset6(conf))
    => /\ built = "rejected"
       /\ addrs = <<>>
       /\ conn = 0
       /\ nopen = 0
       /\ dconns = <<>>
       /\ \A p \in Callers : pc[p] = "idle" /\ log[p] = <<>>

C6_Witness ==
    /\ built = "rejected"
    /\ conf.SentinelTimeouts.Read = 0
    /\ Len(conf.Sentinels) = 1

\* C7: NewPool returns a pool only when the master name and the sentinel list
\* are non-empty and all six timeouts are strictly positive.
C7_AllValuesRequired ==
    built = "pool"
    => /\ conf.Master # ""
       /\ Len(conf.Sentinels) > 0
       /\ \A f \in Fields : conf.SentinelTimeouts[f] > 0 /\ conf.RedisTimeouts[f] > 0

\* C8: within one call no attempt follows a successful attempt.
C8_StopsAtFirstSuccess ==
    \A p \in Callers :
        \A k \in 1..Len(log[p]) : log[p][k].res = "ok" => k = Len(log[p])

\* C9: MasterAddress returns a dial or query error only after len(addrs)
\* attempts that all failed; when some attempt of the call succeeded, it returns
\* that attempt's reply and no such error.
C9_ErrorOnlyAfterExhaustion ==
    \A p \in Callers :
        AtReturn(p)
        => /\ Transport(res[p].err) => (Len(log[p]) = Len(addrs) /\ AllFailed(log[p]))
           /\ \A k \in 1..Len(log[p]) :
                log[p][k].res = "ok"
                => (err[p] = NoErr /\ reply[p].from = log[p][k].addr
                    /\ ~Transport(res[p].err))

\* C10: a call that starts with a live connection and whose first attempt
\* succeeds makes that one attempt, dials nothing and leaves activeAddr and the
\* connection as they were; a call that ends in success leaves the connection
\* it used live, for the next call to use without a dial.
C10_Sticky ==
    \A p \in Callers :
        /\ ( /\ AtReturn(p)
             /\ entry[p].conn # 0
             /\ Len(log[p]) >= 1
             /\ log[p][1].res = "ok" )
           => /\ Len(log[p]) = 1
              /\ ~log[p][1].dialed
              /\ activeAddr = entry[p].activeAddr
              /\ conn = entry[p].conn
              /\ nopen = 1
        /\ ( /\ AtReturn(p)
             /\ Len(log[p]) >= 1
             /\ log[p][Len(log[p])].res = "ok" )
           => /\ conn = log[p][Len(log[p])].addr
              /\ conn = addrs[activeAddr + 1]
              /\ \A k \in 1..Len(log[p]) : log[p][k].dialed <=> (k > 1 \/ entry[p].conn = 0)

C10_Witness ==
    \E p \in Callers :
        /\ AtReturn(p)
        /\ Len(addrs) >= 2
        /\ entry[p].conn # 0
        /\ entry[p].activeAddr = 1
        /\ Len(log[p]) = 1
        /\ log[p][1].res = "ok"
        /\ ~log[p][1].dialed

\* an error of redis.Strings about the reply, not of the dial or the query
ParseErr(e) == e \in {ErrNil, ErrElem, ErrType}

\* C11: a reply of the wrong shape or type is retried like an I/O error: when
\* MasterAddress returns a parse error, every attempt of the call was followed
\* by a rotation (activeAddr has advanced once per attempt), all len(addrs)
\* sentinels were tried and the connection that gave the reply was discarded.
C11_ParseErrorRetried ==
    \A p \in Callers :
        (AtReturn(p) /\ ParseErr(res[p].err) /\ Len(addrs) >= 1)
        => /\ Len(log[p]) = Len(addrs)
           /\ conn = 0
           /\ nopen = 0
           /\ activeAddr = (entry[p].activeAddr + Len(log[p])) % Len(addrs)

\* C12: TestOnBorrow returns, and it returns nil exactly when the ROLE reply on
\* the pooled connection names "master"; on a mismatch, a reply that does not
\* decode or an I/O error it returns the error "failed role check".
C12_TestOnBorrowIff ==
    \A p \in Callers :
        op[p] = "TestOnBorrow"
        => /\ pc[p] = "ret"
           /\ ret[p].conn = c[p]
           /\ (ret[p].err = "") <=> RoleIs(rr[p], "master")
           /\ ~RoleIs(rr[p], "master") => ret[p].err = "failed role check"

\* C13: Close is idempotent.  When Close returns the client has no connection,
\* no sentinel connection is open and activeAddr is what it was when Close took
\* the lock; a Close that finds a connection closes that one connection once; a
\* Close that finds none (as after an earlier Close) changes nothing and closes
\* nothing; the closes never outnumber the dials.
C13_CloseIdempotent ==
    /\ [](/\ nopen >= 0
          /\ \A p \in Callers :
               (pc[p] = "unlock" /\ op[p] = "Close")
               => /\ conn = 0
                  /\ nopen = 0
                  /\ activeAddr = entry[p].activeAddr)
    /\ [][\A p \in Callers :
            pc[p] = "close"
            => /\ activeAddr' = activeAddr
               /\ addrs' = addrs
               /\ (conn = 0 => (conn' = 0 /\ nopen' = nopen))
               /\ ((conn # 0 /\ pc'[p] = "unlock") => (conn' = 0 /\ nopen' = nopen - 1))]_vars

\* a Close that closed a live connection is about to return, on a client whose
\* activeAddr has moved, while a second Close waits for the lock
C13_Witness ==
    \E p, q \in Callers :
        /\ p # q
        /\ pc[p] = "unlock"
        /\ op[p] = "Close"
        /\ entry[p].conn # 0
        /\ entry[p].activeAddr = 1
        /\ conn = 0
        /\ pc[q] = "lock"
        /\ op[q] = "Close"

\* C14: in every reachable state at most one sentinel connection dialled by the
\* client is open, it is open exactly when sc.conn is set, and sc.conn, when
\* set, is a connection dialled to addrs[activeAddr] for the current activeAddr.
C14_OneConnAtActive ==
    /\ nopen \in {0, 1}
    /\ nopen = 1 <=> conn # 0
    /\ conn # 0 => /\ activeAddr < Len(addrs)
                   /\ conn = addrs[activeAddr + 1]

\* a call that found a connection, lost it and the next one to I/O errors, and
\* now holds its third connection, to the third sentinel
C14_Witness ==
    \E p \in Callers :
        /\ pc[p] = "after"
        /\ Len(log[p]) = 3
        /\ entry[p].conn # 0
        /\ log[p][1].res = "ioerr"
        /\ log[p][2].res = "ioerr"
        /\ log[p][3].res = "ok"
        /\ conn = log[p][3].addr
        /\ nopen = 1

\* p has called MasterAddress or Close and has not returned
Active(p) == pc[p] = "lock" \/ InLock(p)

\* C15: a MasterAddress call makes at most len(addrs) attempts; a caller outside
\* MasterAddress and Close never holds the mutex, whatever the way the call
\* ended (success, exhaustion, parse error); whenever a caller waits for the
\* mutex, the mutex is free or its holder has a step to take (no deadlock); no
\* call panics; and, when every dial and query returns and the mutex is fair,
\* every caller that has called MasterAddress or Close returns from it.
C15_TerminatesAndUnlocks ==
    /\ [](\A p \in Callers :
            /\ Len(log[p]) <= Len(addrs)
            /\ i[p] <= Len(addrs)
            /\ ~Active(p) => mutex # p
            /\ InLock(p) => mutex = p
            /\ pc[p] # "panic"
            /\ pc[p] = "lock"
                 => \/ mutex = 0
                    \/ (mutex \in Callers /\ InLock(mutex) /\ ENABLED InCall(mutex)))
    /\ \A p \in Callers : Active(p) ~> (pc[p] = "idle")

\* a call of three failed attempts is about to return while another caller
\* waits for the mutex
C15_Witness ==
    \E p, q \in Callers :
        /\ pc[p] = "unlock"
        /\ op[p] = "MasterAddress"
        /\ Len(addrs) = 3
        /\ Len(log[p]) = 3
        /\ res[p].err # NoErr
        /\ mutex = p
        /\ pc[q] = "lock"
        /\ op[q] = "MasterAddress"

\* C16: MasterAddress returns a nil error only when the sentinel's reply had
\* exactly two elements, and the address returned is then host, a colon, port;
\* a reply of one element or of three never gives a nil error.
C16_TwoElementsOnly ==
    \A p \in Callers :
        (AtReturn(p) /\ res[p].err = NoErr)
        => /\ reply[p].kind = "array"
           /\ Len(reply[p].elems) = 2
           /\ res[p].addr = reply[p].elems[1].v \o ":" \o reply[p].elems[2].v
           /\ res[p].addr = "10.0.0.9:6379"

\* C17: when Dial returns after it dialled a data-node connection, that
\* connection has been returned to the caller or closed; after a failed role
\* check it has been closed.
C17_DialClosesOnFailure ==
    \A p \in Callers :
        (pc[p] = "ret" /\ op[p] = "Dial" /\ c[p] # 0)
        => /\ dconns[c[p]].returned \/ dconns[c[p]].closed
           /\ ret[p].conn = 0 => dconns[c[p]].closed

\* C18: a MasterAddress call on n >= 1 sentinels whose n attempts all failed
\* leaves the client without a connection, with no sentinel connection open,
\* and with activeAddr at the value it had when the call began.
C18_AllFailRestoresIndex ==
    \A p \in Callers :
        ( /\ AtReturn(p)
          /\ Len(addrs) >= 1
          /\ Len(log[p]) = Len(addrs)
          /\ AllFailed(log[p]) )
        => /\ conn = 0
           /\ nopen = 0
           /\ activeAddr = entry[p].activeAddr

\* three failed attempts that began at the second sentinel and wrapped around
C18_Witness ==
    \E p \in Callers :
        /\ AtReturn(p)
        /\ Len(addrs) = 3
        /\ entry[p].activeAddr = 1
        /\ Len(log[p]) = 3
        /\ AllFailed(log[p])
        /\ log[p][1].addr = addrs[2]
        /\ log[p][3].addr = addrs[1]
        /\ activeAddr = 1

\* C19: the client stays usable after Close.  Close leaves activeAddr as it
\* was and no connection, and they stay so until a call dials; the first
\* attempt of the MasterAddress call that follows a Close dials a new
\* connection to addrs[activeAddr]; a call that found no connection and whose
\* first attempt is answered with host and port returns host:port and keeps
\* that connection; while a query is in flight the connection is set, no Close
\* is inside its critical section, and no step of another caller changes the
\* connection.
C19_UsableAfterClose ==
    /\ [](\A p \in Callers :
            /\ (pc[p] = "unlock" /\ op[p] = "Close")
                 => (closed /\ conn = 0 /\ activeAddr = entry[p].activeAddr)
            /\ (closed /\ \A q \in Callers : pc[q] # "query") => conn = 0
            /\ (closed /\ pc[p] = "query")
                 => /\ log[p] = << [addr |-> addrs[entry[p].activeAddr + 1],
                                    dialed |-> TRUE, res |-> "inflight"] >>
                    /\ conn = addrs[entry[p].activeAddr + 1]
                    /\ activeAddr = entry[p].activeAddr
            /\ ( /\ AtReturn(p)
                 /\ entry[p].conn = 0
                 /\ Len(log[p]) >= 1
                 /\ log[p][1].res = "ok"
                 /\ reply[p] = Array(<<Bulk(MasterHost), Bulk(MasterPort)>>, log[p][1].addr) )
                 => /\ log[p][1].dialed
                    /\ res[p] = [addr |-> "10.0.0.9:6379", parts |-> 2, err |-> NoErr]
                    /\ conn = addrs[entry[p].activeAddr + 1]
            /\ pc[p] = "query"
                 => /\ conn # 0
                    /\ mutex = p
                    /\ \A q \in Callers : pc[q] \notin {"close", "unlock"})
    /\ [][/\ (closed /\ closed') => (activeAddr' = activeAddr /\ addrs' = addrs)
          /\ \A p \in Callers :
               (pc[p] = "query" /\ pc'[p] = "query")
               => (conn' = conn /\ nopen' = nopen)]_vars

\* after a Close on a client whose activeAddr is 1, a MasterAddress call has
\* dialled the second sentinel and its query is in flight, while another Close
\* waits for the mutex
C19_Witness ==
    \E p, q \in Callers :
        /\ p # q
        /\ closed
        /\ pc[p] = "query"
        /\ op[p] = "MasterAddress"
        /\ entry[p].activeAddr = 1
        /\ log[p] = << [addr |-> addrs[2], dialed |-> TRUE, res |-> "inflight"] >>
        /\ conn = addrs[2]
        /\ pc[q] = "lock"
        /\ op[q] = "Close"

\* C20: on a Client that NewClient built with an empty list, a MasterAddress
\* call dials nothing and queries nothing, does not panic, leaves activeAddr
\* and the connection as they were, and returns an error and the empty string.
C20_EmptyListFails ==
    (built = "client" /\ Len(addrs) = 0)
    => /\ conn = 0
       /\ nopen = 0
       /\ activeAddr = 0
       /\ \A p \in Callers :
            /\ pc[p] \notin {"query", "after", "panic"}
            /\ log[p] = <<>>
            /\ i[p] = 0
            /\ AtReturn(p) => /\ res[p].err = ErrNil
                              /\ res[p].addr = ""

\* MasterAddress on the empty list is about to return its error while a second
\* call waits for the mutex
C20_Witness ==
    \E p, q \in Callers :
        /\ built = "client"
        /\ addrs = <<>>
        /\ AtReturn(p)
        /\ op[p] = "MasterAddress"
        /\ res[p].err # NoErr
        /\ pc[q] = "lock"
        /\ op[q] = "MasterAddress"

====
